---- MODULE Spec2Model ----
(***************************************************************************)
(* The content subresource of the File resource (package file of the CDN   *)
(* API server): the in-memory contentStore, the contentHandler that serves *)
(* GET, HEAD and PUT on .../files/{name}/content, its Content-Type         *)
(* validation and normalisation, and the object store (registry.REST) it   *)
(* reads and writes the File metadata through.                             *)
(*                                                                         *)
(* Strings that the code takes apart (the Content-Type header, the media   *)
(* type, the stored content type) are sequences of one-character strings,  *)
(* so that parsing and formatting are computed, not assumed.  Strings that *)
(* the code only copies (names, namespaces, hosts) are TLA+ strings.       *)
(***************************************************************************)
EXTENDS Integers, Sequences, FiniteSets, TLC

(***************************************************************************)
(* Bounds of the model.                                                    *)
(***************************************************************************)
\* handler goroutines that may be in flight together (Spec)
NumProcs == 2
\* requests served in one behaviour of Spec
MaxOps == 3
\* requests served in one behaviour of SpecSeq
MaxSeqOps == 2

\* requests of SpecClients
MaxCliOps == 2

\* writes of other clients in SpecClients
MaxExtOps == 2

\* requests served in a run of SpecFair
MaxFairOps == 2

(***************************************************************************)
(* Characters and strings (package strings, package mime of the Go         *)
(* standard library, as called from handlePut).                            *)
(***************************************************************************)

\* strings.ToLower on the letters that occur in the headers of the model
Lower(c) ==
    CASE c = "T" -> "t"
      [] c = "P" -> "p"
      [] c = "C" -> "c"
      [] c = "U" -> "u"
      [] c = "F" -> "f"
      [] OTHER   -> c

ToLower(s) == [i \in 1..Len(s) |-> Lower(s[i])]

\* unicode.IsSpace, on the alphabet of the model
IsSpace(c) == c = " "

\* mime.isTokenChar: a printable ASCII character that is no tspecial
\* (RFC 1521/2045: ()<>@,;:\"/[]?=) and no space
TSpecials == {"(", ")", "<", ">", "@", ",", ";", ":", "\\", "\"", "/", "[", "]", "?", "="}

isTokenChar(c) == ~IsSpace(c) /\ c \notin TSpecials

Min(S) == CHOOSE x \in S : \A y \in S : x <= y

Max(S) == CHOOSE x \in S : \A y \in S : x >= y

\* strings.TrimLeftFunc(s, unicode.IsSpace)
TrimLeft(s) ==
    LET ns == {i \in 1..Len(s) : ~IsSpace(s[i])}
    IN  IF ns = {} THEN <<>> ELSE SubSeq(s, Min(ns), Len(s))

\* strings.TrimSpace
TrimSpace(s) ==
    LET ns == {i \in 1..Len(s) : ~IsSpace(s[i])}
    IN  IF ns = {} THEN <<>> ELSE SubSeq(s, Min(ns), Max(ns))

\* strings.HasPrefix(s, c) for a one-character prefix
HasPrefix(s, c) == Len(s) > 0 /\ s[1] = c

\* the first result of strings.Cut(s, sep): s up to the first sep, or all of s
CutBefore(s, sep) ==
    LET at == {i \in 1..Len(s) : s[i] = sep}
    IN  IF at = {} THEN s ELSE SubSeq(s, 1, Min(at) - 1)

\* mime.consumeToken: <<token, rest>>, token the longest prefix of token
\* characters
consumeToken(v) ==
    LET notPos == {i \in 1..Len(v) : ~isTokenChar(v[i])}
    IN  IF notPos = {} THEN <<v, <<>>>>
        ELSE <<SubSeq(v, 1, Min(notPos) - 1), SubSeq(v, Min(notPos), Len(v))>>

\* mime.consumeValue for a value that is a token; the headers of the model
\* carry no quoted-string values
consumeValue(v) == consumeToken(v)

\* the value of a local variable: the one element of a singleton
Only(S) == CHOOSE x \in S : TRUE

\* mime.checkMediaTypeDisposition: "" for nil, else the error text
checkMediaTypeDisposition(s) ==
    Only({ IF typ[1] = <<>> THEN "mime: no media type"
           ELSE IF typ[2] = <<>> THEN ""
           ELSE IF ~HasPrefix(typ[2], "/")
           THEN "mime: expected slash after first token"
           ELSE Only({ IF sub[1] = <<>> THEN "mime: expected token after slash"
                       ELSE IF sub[2] # <<>>
                       THEN "mime: unexpected content after media subtype"
                       ELSE ""
                       : sub \in {consumeToken(Tail(typ[2]))} })
           : typ \in {consumeToken(s)} })

\* the tail of mime.consumeMediaParam, from the text r3 after the parameter
\* name: "=" and a value must follow
consumeMediaParamValue(v, param, r3) ==
    IF ~HasPrefix(r3, "=") THEN <<<<>>, <<>>, v>>
    ELSE Only({ Only({ IF val[1] = <<>> /\ val[2] = r4 THEN <<<<>>, <<>>, v>>
                       ELSE <<param, val[1], val[2]>>
                       : val \in {consumeValue(r4)} })
                : r4 \in {TrimLeft(Tail(r3))} })

\* mime.consumeMediaParam: <<param, value, rest>>; param = "" when v does
\* not start with a parameter
consumeMediaParam(v) ==
    Only({ IF ~HasPrefix(r1, ";") THEN <<<<>>, <<>>, v>>
           ELSE Only({ IF tok[1] = <<>> THEN <<<<>>, <<>>, v>>
                       ELSE Only({ consumeMediaParamValue(v, ToLower(tok[1]), r3)
                                   : r3 \in {TrimLeft(tok[2])} })
                       : tok \in {consumeToken(TrimLeft(Tail(r1)))} })
           : r1 \in {TrimLeft(v)} })

\* one round of the parameter loop, on the parameter kvr that
\* consumeMediaParam read
RECURSIVE parseParams(_, _)
parseParam(kvr, params) ==
    IF kvr[1] = <<>>
    THEN IF TrimSpace(kvr[3]) = <<";">> THEN [params |-> params, err |-> ""]
         ELSE [params |-> params, err |-> "mime: invalid media parameter"]
    ELSE IF kvr[1] \in DOMAIN params /\ params[kvr[1]] # kvr[2]
    THEN [params |-> params, err |-> "mime: duplicate parameter name"]
    ELSE parseParams(kvr[3], [k \in DOMAIN params \cup {kvr[1]} |->
                                IF k = kvr[1] THEN kvr[2] ELSE params[k]])

\* the parameter loop of mime.ParseMediaType, from the text v after the
\* media type and the parameters read so far; no parameter name of the
\* model holds a '*', so the RFC 2231 continuations never arise
parseParams(v, params) ==
    Only({ IF w = <<>> THEN [params |-> params, err |-> ""]
           ELSE Only({ parseParam(kvr, params) : kvr \in {consumeMediaParam(w)} })
           : w \in {TrimLeft(v)} })

NoParams == [k \in {} |-> <<>>]

\* mime.ParseMediaType, once the media type is checked: the parameters
parseMediaParams(mediatype, after) ==
    Only({ IF ps.err = "mime: invalid media parameter"
           THEN [mediatype |-> mediatype, params |-> NoParams, err |-> ps.err]
           ELSE IF ps.err # ""
           THEN [mediatype |-> <<>>, params |-> NoParams, err |-> ps.err]
           ELSE [mediatype |-> mediatype, params |-> ps.params, err |-> ""]
           : ps \in {parseParams(after, NoParams)} })

\* mime.ParseMediaType
ParseMediaType(v) ==
    Only({ Only({ Only({ IF err # ""
                         THEN [mediatype |-> <<>>, params |-> NoParams, err |-> err]
                         ELSE parseMediaParams(mediatype,
                                               SubSeq(v, Len(base) + 1, Len(v)))
                         : err \in {checkMediaTypeDisposition(mediatype)} })
                  : mediatype \in {TrimSpace(ToLower(base))} })
           : base \in {CutBefore(v, ";")} })

(***************************************************************************)
(* Content-Type headers of the requests of the model; H_absent is a        *)
(* request without the header (req.Header.Get returns "").                 *)
(***************************************************************************)
\* ""
H_absent ==
    <<>>

\* "text/plain"
H_text_plain ==
    <<"t", "e", "x", "t", "/", "p", "l", "a", "i", "n">>

\* "text/plain; charset=utf-8"
H_text_plain_utf8 ==
    <<"t", "e", "x", "t", "/", "p", "l", "a", "i", "n", ";", " ", "c", "h", "a", "r", "s", "e", "t", "=", "u", "t", "f", "-", "8">>

\* "bogus-no-slash"
H_bogus_no_slash ==
    <<"b", "o", "g", "u", "s", "-", "n", "o", "-", "s", "l", "a", "s", "h">>

\* "application/x-custom"
H_application_x_custom ==
    <<"a", "p", "p", "l", "i", "c", "a", "t", "i", "o", "n", "/", "x", "-", "c", "u", "s", "t", "o", "m">>

\* "wibble/plain"
H_wibble_plain ==
    <<"w", "i", "b", "b", "l", "e", "/", "p", "l", "a", "i", "n">>

\* "text/"
H_text_slash ==
    <<"t", "e", "x", "t", "/">>

\* "text/plain; format=flowed"
H_text_plain_flowed ==
    <<"t", "e", "x", "t", "/", "p", "l", "a", "i", "n", ";", " ", "f", "o", "r", "m", "a", "t", "=", "f", "l", "o", "w", "e", "d">>

\* "text/plain; format=flowed; charset=utf-8"
H_flowed_utf8 ==
    <<"t", "e", "x", "t", "/", "p", "l", "a", "i", "n", ";", " ", "f", "o", "r", "m", "a", "t", "=", "f", "l", "o", "w", "e", "d", ";", " ", "c", "h", "a", "r", "s", "e", "t", "=", "u", "t", "f", "-", "8">>

\* "Text/Plain; Charset=UTF-8"
H_upper ==
    <<"T", "e", "x", "t", "/", "P", "l", "a", "i", "n", ";", " ", "C", "h", "a", "r", "s", "e", "t", "=", "U", "T", "F", "-", "8">>

\* "image/png"
H_image_png ==
    <<"i", "m", "a", "g", "e", "/", "p", "n", "g">>

\* "text/plain; charset"
H_param_no_value ==
    <<"t", "e", "x", "t", "/", "p", "l", "a", "i", "n", ";", " ", "c", "h", "a", "r", "s", "e", "t">>

\* "text/plain;"
H_trailing_semicolon ==
    <<"t", "e", "x", "t", "/", "p", "l", "a", "i", "n", ";">>

\* "/plain"
H_no_type ==
    <<"/", "p", "l", "a", "i", "n">>

\* "text/plain; charset=a; charset=b"
H_duplicate_charset ==
    <<"t", "e", "x", "t", "/", "p", "l", "a", "i", "n", ";", " ", "c", "h", "a", "r", "s", "e", "t", "=", "a", ";", " ", "c", "h", "a", "r", "s", "e", "t", "=", "b">>

Headers ==
    {H_absent, H_text_plain, H_text_plain_utf8, H_bogus_no_slash,
     H_application_x_custom, H_wibble_plain, H_text_slash, H_text_plain_flowed,
     H_flowed_utf8, H_upper, H_image_png, H_param_no_value,
     H_trailing_semicolon, H_no_type, H_duplicate_charset}

(***************************************************************************)
(* Content-Type validation and normalisation.                              *)
(***************************************************************************)

\* allowedMIMETypes: the valid top-level MIME type categories
allowedMIMETypes ==
    { <<"a", "p", "p", "l", "i", "c", "a", "t", "i", "o", "n">>,
      <<"a", "u", "d", "i", "o">>,
      <<"f", "o", "n", "t">>,
      <<"i", "m", "a", "g", "e">>,
      <<"m", "e", "s", "s", "a", "g", "e">>,
      <<"m", "o", "d", "e", "l">>,
      <<"m", "u", "l", "t", "i", "p", "a", "r", "t">>,
      <<"t", "e", "x", "t">>,
      <<"v", "i", "d", "e", "o">> }

\* strings.SplitN(s, "/", 2)
SplitN2(s) ==
    LET at == {i \in 1..Len(s) : s[i] = "/"}
    IN  IF at = {} THEN <<s>>
        ELSE <<SubSeq(s, 1, Min(at) - 1), SubSeq(s, Min(at) + 1, Len(s))>>

\* an allow-list that forgets the top-level check
isValidMIMEType_anyTop(mediaType) ==
    LET parts == SplitN2(mediaType)
    IN  Len(parts) = 2 /\ parts[2] # <<>>

\* isValidMIMEType
isValidMIMEType(mediaType) ==
    LET parts == SplitN2(mediaType)
    IN  IF Len(parts) # 2 THEN FALSE
        ELSE IF parts[1] \notin allowedMIMETypes THEN FALSE
        ELSE IF parts[2] = <<>> THEN FALSE
        ELSE TRUE

\* "application/octet-stream", the content type of a request without the
\* header and of a File whose spec.contentType is empty
DefaultContentType ==
    <<"a", "p", "p", "l", "i", "c", "a", "t", "i", "o", "n", "/", "o", "c", "t", "e", "t", "-", "s", "t", "r", "e", "a", "m">>

CharsetKey ==
    <<"c", "h", "a", "r", "s", "e", "t">>

CharsetSep ==
    <<";", " ", "c", "h", "a", "r", "s", "e", "t", "=">>

\* the declared content type of a request: the header, or the default
declaredContentType(header) ==
    IF header = <<>> THEN DefaultContentType ELSE header

\* a normalisation that keeps the media type only
normalizeContentType_dropCharset(mediaType, params) == mediaType

\* the normalized content type: the media type, with the charset if present
normalizeContentType(mediaType, params) ==
    IF CharsetKey \in DOMAIN params
    THEN mediaType \o CharsetSep \o params[CharsetKey]
    ELSE mediaType

(***************************************************************************)
(* The data of the model.                                                  *)
(***************************************************************************)
Procs == 1..NumProcs

Namespaces == {"ns1", "ns2"}

Names == {"a", "b"}

\* a File resource is identified by <<namespace, name>> (fileStrategy is
\* namespace scoped)
Resources == Namespaces \X Names

\* request bodies, as byte sequences
Payloads == {<<>>, <<1>>, <<2, 3>>}

Methods == {"GET", "HEAD", "PUT", "POST"}

ReqHost == "api.local:8443"

ExternalHosts == {"", "cdn.example.com"}

GroupName == "cdn.k8s.toms.place"

Version == "v1alpha1"

\* errors of package apierrors, as far as the handler tells them apart
NoErr == [code |-> 0, reason |-> "", kind |-> "", name |-> ""]

NewNotFound(kind, name) ==
    [code |-> 404, reason |-> "NotFound", kind |-> kind, name |-> name]

NewAlreadyExists(kind, name) ==
    [code |-> 409, reason |-> "AlreadyExists", kind |-> kind, name |-> name]

NewConflict(kind, name) ==
    [code |-> 409, reason |-> "Conflict", kind |-> kind, name |-> name]

\* any failure of the storage backend
InternalError == [code |-> 500, reason |-> "InternalError", kind |-> "", name |-> ""]

IsNotFound(err) == err.reason = "NotFound"

\* no File, no contentEntry, no metav1.Status, no response yet
NoFile == [none |-> "file"]

NoEntry == [none |-> "entry"]

NoStatus == [none |-> "status"]

NoResp ==
    [code |-> 0, msg |-> "", err |-> NoErr, contentType |-> <<>>,
     contentLength |-> -1, filename |-> "", body |-> <<>>, status |-> NoStatus]

NoReq ==
    [method |-> "", namespace |-> "", name |-> "", body |-> <<>>,
     header |-> <<>>, tls |-> FALSE, host |-> ""]

NoSnapshot == [none |-> "snapshot"]

NoUpload == [none |-> "upload"]

(***************************************************************************)
(* Admission plugin initialization (pkg/admission/initializer).            *)
(***************************************************************************)
\* the shared informer factories a server may build
Factories == {"sf1", "sf2", "sf3"}

\* admission plugins; those of WantsFactory implement
\* WantsInternalInformerFactory, as the stub wantInternalInformerFactory does
AdmissionPlugins == {"p1", "p2", "p3", "p4"}

WantsFactory == {"p1", "p2", "p3"}

\* no initializer built, a nil sf field, no Initialize call yet
NoInitializer == [none |-> "initializer"]

NoFactory == "nil"

NoInitialize == [none |-> "initialize"]

VARIABLES
    externalHost,   \* ContentREST.externalHost, from ExtraConfig.ExternalHost
    files,          \* the object store: Resources -> File or NoFile
    revision,       \* the storage revision that stamps resourceVersions
    contentStore,   \* entries: name -> contentEntry; writer, readers: the RWMutex
    req,            \* per handler: the request it serves
    pc,             \* per handler: where it is in ServeHTTP/handleGet/handlePut
    contentType,    \* per handler: handlePut's normalized contentType
    obj,            \* per handler: the File read by store.Get
    entry,          \* per handler: handleGet's entry (NoEntry: hasLocal false)
    resp,           \* per handler: the response it has written
    calls,          \* history: the store calls of the request, in order
    before,         \* history: the stores as the request arrived (SpecSeq)
    written,        \* history: the <<name, payload>> pairs PUTs have stored
    ops,            \* requests served so far
    cli,            \* per handler: the UploadOptions of the kubectl cdn upload
                    \* that sent its request (NoUpload: another client)
    extOps,         \* writes other clients have made to the object store
    target,         \* the admission plugin initializer built by New
    plugins,        \* per admission plugin: the informer factory it holds
    initialized     \* history: the last Initialize call, plugin and factory

\* the state of admission plugin initialization
admission == <<target, plugins, initialized>>

\* the state of the content endpoint and its clients
content ==
    <<externalHost, files, revision, contentStore, req, pc, contentType, obj,
      entry, resp, calls, before, written, ops, cli, extOps>>

vars == <<content, admission>>

Init ==
    /\ externalHost \in ExternalHosts
    /\ files = [k \in Resources |-> NoFile]
    /\ revision = 0
    /\ contentStore = [entries |-> [n \in {} |-> NoEntry], writer |-> 0, readers |-> {}]
    /\ req = [r \in Procs |-> NoReq]
    /\ pc = [r \in Procs |-> "idle"]
    /\ contentType = [r \in Procs |-> <<>>]
    /\ obj = [r \in Procs |-> NoFile]
    /\ entry = [r \in Procs |-> NoEntry]
    /\ resp = [r \in Procs |-> NoResp]
    /\ calls = [r \in Procs |-> <<>>]
    /\ before = [r \in Procs |-> NoSnapshot]
    /\ written = {}
    /\ ops = 0
    /\ cli = [r \in Procs |-> NoUpload]
    /\ extOps = 0
    /\ target = NoInitializer
    /\ plugins = [p \in AdmissionPlugins |-> NoFactory]
    /\ initialized = NoInitialize

\* an entry of the history calls: the call, the File it returned or was
\* handed, and its error
call(op, file, err) == [op |-> op, file |-> file, err |-> err]

\* the key of the File a handler is bound to: the namespace of its context
\* and contentHandler.name
key(r) == <<req[r].namespace, req[r].name>>

headOnly(r) == req[r].method = "HEAD"

(***************************************************************************)
(* Responses.                                                              *)
(***************************************************************************)
\* http.Error(w, msg, code); msg is the fixed head of the message
httpError(code, msg) == [NoResp EXCEPT !.code = code, !.msg = msg]

\* an error answered with http.Error, which keeps only a 500 and a text
responderError_plain(err) == [NoResp EXCEPT !.code = 500, !.msg = err.reason]

\* responder.Error(err): the error's own code and reason
responderError(err) == [NoResp EXCEPT !.code = err.code, !.msg = err.reason, !.err = err]

\* a served content type that ignores the File's spec.contentType
servedContentType_default(file) == DefaultContentType

\* the Content-Type handleGet serves for a File
servedContentType(file) ==
    IF file.contentType = <<>> THEN DefaultContentType ELSE file.contentType

\* a body that drops the last byte of the entry
servedBody_short(data, head) ==
    IF head THEN <<>> ELSE SubSeq(data, 1, Len(data) - 1)

\* the body handleGet writes
servedBody(data, head) == IF head THEN <<>> ELSE data

\* handleGet's 200 response
contentResponse(file, e, name, head) ==
    [NoResp EXCEPT !.code = 200, !.msg = "OK",
                   !.contentType = servedContentType(file),
                   !.contentLength = Len(e.data),
                   !.filename = name,
                   !.body = servedBody(e.data, head)]

\* handlePut's metav1.Status; name, size and contentType make up its message
uploadStatus(name, size, ct) ==
    [status |-> "Success", name |-> name, size |-> size, contentType |-> ct,
     kind |-> "File", code |-> 201]

\* responder.Object(http.StatusCreated, &cdn.FileContent{Status: status})
createdResponse(status) ==
    [NoResp EXCEPT !.code = 201, !.msg = "Created", !.status = status]

(***************************************************************************)
(* The object store (registry.REST over the generic registry): Get, Create *)
(* and Update as the handler calls them.  fault is a failure of the        *)
(* storage backend, which may strike any call.                             *)
(***************************************************************************)
\* the qualified resource the store names in its errors
storeResource == "files"

\* store.Get(ctx, name): [obj, err]
storeGet(k, fault) ==
    IF fault THEN [obj |-> NoFile, err |-> InternalError]
    ELSE IF files[k] = NoFile
    THEN [obj |-> NoFile, err |-> NewNotFound(storeResource, k[2])]
    ELSE [obj |-> files[k], err |-> NoErr]

\* a Create that overwrites a File that exists
storeCreateErr_overwrite(k, fault) == IF fault THEN InternalError ELSE NoErr

\* store.Create(ctx, newFile): the error; a name can be created once
storeCreateErr(k, fault) ==
    IF fault THEN InternalError
    ELSE IF files[k] # NoFile THEN NewAlreadyExists(storeResource, k[2])
    ELSE NoErr

\* store.Update(ctx, name, DefaultUpdatedObjectInfo(file)): the error.
\* AllowCreateOnUpdate and AllowUnconditionalUpdate are false: the File
\* must exist and file must carry its current resourceVersion
storeUpdateErr(k, file, fault) ==
    IF fault THEN InternalError
    ELSE IF files[k] = NoFile THEN NewNotFound(storeResource, k[2])
    ELSE IF files[k].resourceVersion # file.resourceVersion
    THEN NewConflict(storeResource, k[2])
    ELSE NoErr

\* what a successful Create or Update persists: the object, stamped with the
\* new resourceVersion; by is history (who wrote the File last)
persisted(file, by) ==
    [file EXCEPT !.resourceVersion = revision + 1, !.by = by]

\* a content URL that is always http
buildContentURL_http(namespace, name, host, tls) ==
    <<"http", "://", IF externalHost = "" THEN host ELSE externalHost,
      "/apis/", GroupName, "/", Version, "/namespaces/", namespace,
      "/files/", name, "/content">>

\* contentHandler.buildContentURL, as the pieces fmt.Sprintf joins
buildContentURL(namespace, name, host, tls) ==
    <<IF tls THEN "https" ELSE "http", "://",
      IF externalHost = "" THEN host ELSE externalHost,
      "/apis/", GroupName, "/", Version, "/namespaces/", namespace,
      "/files/", name, "/content">>

\* a new File whose status is left at its zero value
newFile_notUploaded(name, url, size, ct) ==
    [name |-> name, url |-> url, size |-> size, contentType |-> ct,
     resourceLocation |-> "", labels |-> "", uploaded |-> FALSE, error |-> "",
     resourceVersion |-> 0, by |-> "put"]

\* the File handlePut creates when the lookup finds none
newFile(name, url, size, ct) ==
    [name |-> name, url |-> url, size |-> size, contentType |-> ct,
     resourceLocation |-> "", labels |-> "", uploaded |-> TRUE, error |-> "",
     resourceVersion |-> 0, by |-> "put"]

\* an update that submits a File built anew, as the create branch does
updatedFile_rebuilt(file, url, size, ct) ==
    [name |-> file.name, url |-> url, size |-> size, contentType |-> ct,
     resourceLocation |-> "", labels |-> "", uploaded |-> TRUE, error |-> "",
     resourceVersion |-> file.resourceVersion, by |-> file.by]

\* an update that leaves spec.contentType as it was read
updatedFile_keepContentType(file, url, size, ct) ==
    [file EXCEPT !.url = url, !.size = size, !.uploaded = TRUE, !.error = ""]

\* the File handlePut submits as an update of the one it read
updatedFile(file, url, size, ct) ==
    [file EXCEPT !.url = url, !.size = size, !.contentType = ct,
                 !.uploaded = TRUE, !.error = ""]

\* a contentEntry that overwrites the bytes of the old entry in place
contentEntry_inPlace(old, data, status) ==
    IF old = NoEntry THEN [data |-> data, status |-> status]
    ELSE [data |-> [i \in 1..Len(old.data) |->
                      IF i <= Len(data) THEN data[i] ELSE old.data[i]],
          status |-> status]

\* &contentEntry{data: contentBytes, status: status}; old is the entry the
\* map held, which the assignment replaces
contentEntry(old, data, status) == [data |-> data, status |-> status]

(***************************************************************************)
(* contentHandler.ServeHTTP: a request q arrives at handler r and is       *)
(* dispatched on its method.                                               *)
(***************************************************************************)
\* a dispatch that lets every method but GET and HEAD write
dispatch_putDefault(method) ==
    CASE method = "GET"  -> "get_lookup"
      [] method = "HEAD" -> "get_lookup"
      [] OTHER           -> "put_parse"

\* the switch of ServeHTTP: where the handler goes next
dispatch(method) ==
    CASE method = "GET"  -> "get_lookup"
      [] method = "HEAD" -> "get_lookup"
      [] method = "PUT"  -> "put_parse"
      [] OTHER           -> "done"

ServeHTTP(r, q) ==
    /\ pc[r] \in {"idle", "done"}
    /\ req' = [req EXCEPT ![r] = q]
    /\ pc' = [pc EXCEPT ![r] = dispatch(q.method)]
    /\ resp' = [resp EXCEPT ![r] =
                  IF dispatch(q.method) = "done"
                  THEN httpError(405, "method not allowed") ELSE NoResp]
    /\ contentType' = [contentType EXCEPT ![r] = <<>>]
    /\ obj' = [obj EXCEPT ![r] = NoFile]
    /\ entry' = [entry EXCEPT ![r] = NoEntry]
    /\ calls' = [calls EXCEPT ![r] = <<>>]
    /\ ops' = ops + 1
    /\ UNCHANGED <<admission, extOps, externalHost, files, revision, contentStore, written>>

(***************************************************************************)
(* contentHandler.handleGet                                                *)
(***************************************************************************)
\* h.store.Get and its error branch
GetLookup(r) ==
    /\ pc[r] = "get_lookup"
    /\ \E fault \in BOOLEAN :
        /\ LET res == storeGet(key(r), fault)
           IN  IF res.err # NoErr
               THEN /\ resp' = [resp EXCEPT ![r] = responderError(res.err)]
                    /\ pc' = [pc EXCEPT ![r] = "done"]
                    /\ UNCHANGED obj
               ELSE /\ obj' = [obj EXCEPT ![r] = res.obj]
                    /\ pc' = [pc EXCEPT ![r] = "get_rlock"]
                    /\ UNCHANGED resp
        /\ calls' = [calls EXCEPT ![r] =
                       Append(@, call("Get", storeGet(key(r), fault).obj,
                                      storeGet(key(r), fault).err))]
    /\ UNCHANGED <<admission, cli, extOps, externalHost, files, revision, contentStore, req,
                   contentType, entry, before, written, ops>>

\* contentStore.RLock(): waits while a writer holds the lock
GetRLock(r) ==
    /\ pc[r] = "get_rlock"
    /\ contentStore.writer = 0
    /\ contentStore' = [contentStore EXCEPT !.readers = @ \cup {r}]
    /\ pc' = [pc EXCEPT ![r] = "get_read"]
    /\ UNCHANGED <<admission, cli, extOps, externalHost, files, revision, req, contentType, obj,
                   entry, resp, calls, before, written, ops>>

\* a read that takes the entry out of the map
GetRead_consume(r) ==
    /\ pc[r] = "get_read"
    /\ entry' = [entry EXCEPT ![r] =
                   IF req[r].name \in DOMAIN contentStore.entries
                   THEN contentStore.entries[req[r].name] ELSE NoEntry]
    /\ contentStore' =
          [contentStore EXCEPT
             !.entries = [m \in DOMAIN contentStore.entries \ {req[r].name} |->
                            contentStore.entries[m]],
             !.readers = @ \ {r}]
    /\ pc' = [pc EXCEPT ![r] = "get_respond"]
    /\ calls' = [calls EXCEPT ![r] = Append(@, call("Load", NoFile, NoErr))]
    /\ UNCHANGED <<admission, cli, extOps, externalHost, files, revision, req, contentType, obj,
                   resp, before, written, ops>>

\* entry, hasLocal := contentStore.entries[h.name]; contentStore.RUnlock()
GetRead(r) ==
    /\ pc[r] = "get_read"
    /\ entry' = [entry EXCEPT ![r] =
                   IF req[r].name \in DOMAIN contentStore.entries
                   THEN contentStore.entries[req[r].name] ELSE NoEntry]
    /\ contentStore' = [contentStore EXCEPT !.readers = @ \ {r}]
    /\ pc' = [pc EXCEPT ![r] = "get_respond"]
    /\ calls' = [calls EXCEPT ![r] = Append(@, call("Load", NoFile, NoErr))]
    /\ UNCHANGED <<admission, cli, extOps, externalHost, files, revision, req, contentType, obj,
                   resp, before, written, ops>>

\* a not-found that names the store's resource, as the lookup's does
contentNotFound_asLookup(name) == NewNotFound(storeResource, name)

\* apierrors.NewNotFound(cdn.Resource("file"), h.name)
contentNotFound(name) == NewNotFound("file", name)

\* the headers and body of the 200, or the handler's own not-found
GetRespond(r) ==
    /\ pc[r] = "get_respond"
    /\ resp' = [resp EXCEPT ![r] =
                  IF entry[r] # NoEntry
                  THEN contentResponse(obj[r], entry[r], req[r].name, headOnly(r))
                  ELSE responderError(contentNotFound(req[r].name))]
    /\ pc' = [pc EXCEPT ![r] = "done"]
    /\ UNCHANGED <<admission, cli, extOps, externalHost, files, revision, contentStore, req,
                   contentType, obj, entry, calls, before, written, ops>>

(***************************************************************************)
(* contentHandler.handlePut                                                *)
(***************************************************************************)
\* the first response written stands: a later WriteHeader is ignored
respond(old, new) == IF old.code # 0 THEN old ELSE new

\* where handlePut goes when Create or Update returned an error, if the
\* return after http.Error were missing
afterUpsertError_fallThrough == "put_lock"

\* where handlePut goes when Create or Update returned an error
afterUpsertError == "done"

\* a validation that reports every rejection as a parse failure
validateContentType_oneMessage(header) ==
    LET parsed == ParseMediaType(declaredContentType(header))
    IN  IF parsed.err # "" \/ ~isValidMIMEType(parsed.mediatype)
        THEN [ok |-> FALSE, msg |-> "invalid Content-Type", contentType |-> <<>>]
        ELSE [ok |-> TRUE, msg |-> "",
              contentType |-> normalizeContentType(parsed.mediatype, parsed.params)]

\* the Content-Type header of a PUT: default, parse, validate, normalize.
\* ok with the normalized content type, or the head of the 400's message
validateContentType(header) ==
    LET parsed == ParseMediaType(declaredContentType(header))
    IN  IF parsed.err # ""
        THEN [ok |-> FALSE, msg |-> "invalid Content-Type", contentType |-> <<>>]
        ELSE IF ~isValidMIMEType(parsed.mediatype)
        THEN [ok |-> FALSE, msg |-> "unsupported Content-Type", contentType |-> <<>>]
        ELSE [ok |-> TRUE, msg |-> "",
              contentType |-> normalizeContentType(parsed.mediatype, parsed.params)]

\* io.Copy of the body (readOk: the client stayed connected), then the
\* Content-Type header
PutParse(r) ==
    /\ pc[r] = "put_parse"
    /\ \E readOk \in BOOLEAN :
        LET v == validateContentType(req[r].header)
        IN  IF ~readOk
            THEN /\ resp' = [resp EXCEPT ![r] =
                               httpError(500, "failed to read request body")]
                 /\ pc' = [pc EXCEPT ![r] = "done"]
                 /\ UNCHANGED contentType
            ELSE IF ~v.ok
            THEN /\ resp' = [resp EXCEPT ![r] = httpError(400, v.msg)]
                 /\ pc' = [pc EXCEPT ![r] = "done"]
                 /\ UNCHANGED contentType
            ELSE /\ contentType' = [contentType EXCEPT ![r] = v.contentType]
                 /\ pc' = [pc EXCEPT ![r] = "put_lookup"]
                 /\ UNCHANGED resp
    /\ UNCHANGED <<admission, cli, extOps, externalHost, files, revision, contentStore, req, obj,
                   entry, calls, before, written, ops>>

\* h.store.Get: not found leads to Create, found to Update, any other
\* error is handed to the responder
PutLookup(r) ==
    /\ pc[r] = "put_lookup"
    /\ \E fault \in BOOLEAN :
        /\ LET res == storeGet(key(r), fault)
           IN  IF res.err # NoErr /\ ~IsNotFound(res.err)
               THEN /\ resp' = [resp EXCEPT ![r] = responderError(res.err)]
                    /\ pc' = [pc EXCEPT ![r] = "done"]
                    /\ UNCHANGED obj
               ELSE IF res.err # NoErr
               THEN /\ pc' = [pc EXCEPT ![r] = "put_create"]
                    /\ UNCHANGED <<obj, resp>>
               ELSE /\ obj' = [obj EXCEPT ![r] = res.obj]
                    /\ pc' = [pc EXCEPT ![r] = "put_update"]
                    /\ UNCHANGED resp
        /\ calls' = [calls EXCEPT ![r] =
                       Append(@, call("Get", storeGet(key(r), fault).obj,
                                      storeGet(key(r), fault).err))]
    /\ UNCHANGED <<admission, cli, extOps, externalHost, files, revision, contentStore, req,
                   contentType, entry, before, written, ops>>

\* the File handler r builds for h.store.Create
fileToCreate(r) ==
    newFile(req[r].name,
            buildContentURL(req[r].namespace, req[r].name, req[r].host, req[r].tls),
            Len(req[r].body), contentType[r])

\* the File handler r submits to h.store.Update: the one it read, changed
fileToUpdate(r) ==
    updatedFile(obj[r],
                buildContentURL(req[r].namespace, req[r].name, req[r].host, req[r].tls),
                Len(req[r].body), contentType[r])

\* the File does not exist: build it and h.store.Create
PutCreate(r) ==
    /\ pc[r] = "put_create"
    /\ \E fault \in BOOLEAN :
        /\ LET file == fileToCreate(r)
               err == storeCreateErr(key(r), fault)
           IN  IF err # NoErr
               THEN /\ resp' = [resp EXCEPT ![r] =
                                  httpError(500, "failed to create file resource")]
                    /\ pc' = [pc EXCEPT ![r] = afterUpsertError]
                    /\ UNCHANGED <<files, revision>>
               ELSE /\ files' = [files EXCEPT ![key(r)] = persisted(file, "put")]
                    /\ revision' = revision + 1
                    /\ pc' = [pc EXCEPT ![r] = "put_lock"]
                    /\ UNCHANGED resp
        /\ calls' = [calls EXCEPT ![r] = 
                       Append(@, call("Create", fileToCreate(r),
                                      storeCreateErr(key(r), fault)))]
    /\ UNCHANGED <<admission, cli, extOps, externalHost, contentStore, req, contentType, obj, entry,
                   before, written, ops>>

\* the File exists: set url, size, contentType and status on the object
\* read, and h.store.Update
PutUpdate(r) ==
    /\ pc[r] = "put_update"
    /\ \E fault \in BOOLEAN :
        /\ LET file == fileToUpdate(r)
               err == storeUpdateErr(key(r), file, fault)
           IN  IF err # NoErr
               THEN /\ resp' = [resp EXCEPT ![r] =
                                  httpError(500, "failed to update file resource")]
                    /\ pc' = [pc EXCEPT ![r] = afterUpsertError]
                    /\ UNCHANGED <<files, revision>>
               ELSE /\ files' = [files EXCEPT ![key(r)] = persisted(file, "put")]
                    /\ revision' = revision + 1
                    /\ pc' = [pc EXCEPT ![r] = "put_lock"]
                    /\ UNCHANGED resp
        /\ calls' = [calls EXCEPT ![r] = 
                       Append(@, call("Update", fileToUpdate(r),
                                      storeUpdateErr(key(r), fileToUpdate(r), fault)))]
    /\ UNCHANGED <<admission, cli, extOps, externalHost, contentStore, req, contentType, obj, entry,
                   before, written, ops>>

\* a Lock() that waits for the writer only, not for the readers
PutLock_ignoreReaders(r) ==
    /\ pc[r] = "put_lock"
    /\ contentStore.writer = 0
    /\ contentStore' = [contentStore EXCEPT !.writer = r]
    /\ pc' = [pc EXCEPT ![r] = "put_store"]
    /\ UNCHANGED <<admission, cli, extOps, externalHost, files, revision, req, contentType, obj,
                   entry, resp, calls, before, written, ops>>

\* contentStore.Lock(): waits while a writer or a reader holds the lock
PutLock(r) ==
    /\ pc[r] = "put_lock"
    /\ contentStore.writer = 0
    /\ contentStore.readers = {}
    /\ contentStore' = [contentStore EXCEPT !.writer = r]
    /\ pc' = [pc EXCEPT ![r] = "put_store"]
    /\ UNCHANGED <<admission, cli, extOps, externalHost, files, revision, req, contentType, obj,
                   entry, resp, calls, before, written, ops>>

\* a map assignment that drops the other keys
storedKeys_onlyNew(entries, n) == {n}

\* the keys of the map after entries[n] = ...
storedKeys(entries, n) == DOMAIN entries \cup {n}

\* a map assignment that is not followed by Unlock()
PutStore_keepLock(r) ==
    /\ pc[r] = "put_store"
    /\ LET n == req[r].name
           old == IF n \in DOMAIN contentStore.entries
                  THEN contentStore.entries[n] ELSE NoEntry
           new == contentEntry(old, req[r].body,
                               uploadStatus(n, Len(req[r].body), contentType[r]))
       IN  contentStore' =
             [contentStore EXCEPT
                !.entries = [m \in storedKeys(contentStore.entries, n) |->
                               IF m = n THEN new ELSE contentStore.entries[m]]]
    /\ pc' = [pc EXCEPT ![r] = "put_respond"]
    /\ calls' = [calls EXCEPT ![r] = Append(@, call("Store", NoFile, NoErr))]
    /\ written' = written \cup {<<req[r].name, req[r].body>>}
    /\ UNCHANGED <<admission, cli, extOps, externalHost, files, revision, req, contentType, obj,
                   entry, resp, before, ops>>

\* contentStore.entries[h.name] = &contentEntry{...}; contentStore.Unlock()
PutStore(r) ==
    /\ pc[r] = "put_store"
    /\ LET n == req[r].name
           old == IF n \in DOMAIN contentStore.entries
                  THEN contentStore.entries[n] ELSE NoEntry
           new == contentEntry(old, req[r].body,
                               uploadStatus(n, Len(req[r].body), contentType[r]))
       IN  contentStore' =
             [contentStore EXCEPT
                !.entries = [m \in storedKeys(contentStore.entries, n) |->
                               IF m = n THEN new ELSE contentStore.entries[m]],
                !.writer = 0]
    /\ pc' = [pc EXCEPT ![r] = "put_respond"]
    /\ calls' = [calls EXCEPT ![r] = Append(@, call("Store", NoFile, NoErr))]
    /\ written' = written \cup {<<req[r].name, req[r].body>>}
    /\ UNCHANGED <<admission, cli, extOps, externalHost, files, revision, req, contentType, obj,
                   entry, resp, before, ops>>

\* h.responder.Object(http.StatusCreated, response)
PutRespond(r) ==
    /\ pc[r] = "put_respond"
    /\ resp' = [resp EXCEPT ![r] =
                  respond(@, createdResponse(
                      uploadStatus(req[r].name, Len(req[r].body), contentType[r])))]
    /\ pc' = [pc EXCEPT ![r] = "done"]
    /\ UNCHANGED <<admission, cli, extOps, externalHost, files, revision, contentStore, req,
                   contentType, obj, entry, calls, before, written, ops>>

(***************************************************************************)
(* Files written by other clients of the object store (kubectl create or   *)
(* apply of a File), which never touch contentStore.                       *)
(***************************************************************************)
\* the spec and status another client may write
ExtFileBare ==
    [url |-> <<>>, size |-> 0, contentType |-> <<>>,
     resourceLocation |-> "s3://bucket/x", labels |-> "team=web",
     uploaded |-> FALSE, error |-> ""]

ExtFileFailed ==
    [url |-> <<>>, size |-> 9, contentType |-> H_image_png,
     resourceLocation |-> "", labels |-> "",
     uploaded |-> TRUE, error |-> "upload failed"]

ExtFiles == {ExtFileBare, ExtFileFailed}

extFile(k, f) ==
    [name |-> k[2], url |-> f.url, size |-> f.size, contentType |-> f.contentType,
     resourceLocation |-> f.resourceLocation, labels |-> f.labels,
     uploaded |-> f.uploaded, error |-> f.error,
     resourceVersion |-> 0, by |-> "ext"]

(***************************************************************************)
(* Spec: handlers run concurrently, on few requests.                       *)
(***************************************************************************)
ConcRequests ==
    { [method |-> "PUT", namespace |-> "ns1", name |-> "a", body |-> <<1>>,
       header |-> H_text_plain_utf8, tls |-> FALSE, host |-> ReqHost],
      [method |-> "PUT", namespace |-> "ns1", name |-> "a", body |-> <<2, 3>>,
       header |-> H_image_png, tls |-> FALSE, host |-> ReqHost],
      [method |-> "GET", namespace |-> "ns1", name |-> "a", body |-> <<>>,
       header |-> <<>>, tls |-> FALSE, host |-> ReqHost] }

\* the free handler of lowest number takes the next request
Free == {p \in Procs : pc[p] \in {"idle", "done"}}

Serve(r) ==
    /\ ops < MaxOps
    /\ r \in Free
    /\ \A p \in Free : r <= p
    /\ \E q \in ConcRequests : ServeHTTP(r, q)
    /\ UNCHANGED <<before, cli>>

Step(r) ==
    \/ GetLookup(r) \/ GetRLock(r) \/ GetRead(r) \/ GetRespond(r)
    \/ PutParse(r) \/ PutLookup(r) \/ PutCreate(r) \/ PutUpdate(r)
    \/ PutLock(r) \/ PutStore(r) \/ PutRespond(r)

Next == \E r \in Procs : Serve(r) \/ Step(r)

Spec == Init /\ [][Next]_vars

\* Scheduling: a goroutine that can take a step takes one, and
\* sync.RWMutex lets no Lock() wait forever while the lock keeps being
\* released (a waiting writer holds back the readers that come after it)
Fairness ==
    \A r \in Procs : WF_vars(Step(r)) /\ SF_vars(PutLock(r))

\* the requests of SpecFair: as in Spec, fewer of them
ServeFair(r) ==
    /\ ops < MaxFairOps
    /\ r \in Free
    /\ \A p \in Free : r <= p
    /\ \E q \in ConcRequests : ServeHTTP(r, q)
    /\ UNCHANGED <<before, cli>>

NextFair == \E r \in Procs : ServeFair(r) \/ Step(r)

SpecFair == Init /\ [][NextFair]_vars /\ Fairness

(***************************************************************************)
(* SpecSeq: one request at a time, start to finish, on many requests,      *)
(* from a store that may already hold a File another client created.       *)
(***************************************************************************)
SeqResources == {<<"ns1", "a">>, <<"ns2", "a">>, <<"ns1", "b">>}

SeqRequests ==
    \* every header, on one File
    { [method |-> "PUT", namespace |-> "ns1", name |-> "a", body |-> <<1>>,
       header |-> h, tls |-> FALSE, host |-> ReqHost] : h \in Headers }
    \cup
    \* every payload
    { [method |-> "PUT", namespace |-> "ns1", name |-> "a", body |-> b,
       header |-> H_text_plain_utf8, tls |-> FALSE, host |-> ReqHost] :
         b \in Payloads }
    \cup
    \* both schemes, and other Files
    { [method |-> "PUT", namespace |-> k[1], name |-> k[2], body |-> <<2, 3>>,
       header |-> H_text_plain, tls |-> TRUE, host |-> ReqHost] :
         k \in SeqResources }
    \cup
    \* the methods without a body
    { [method |-> "GET", namespace |-> k[1], name |-> k[2], body |-> <<>>,
       header |-> <<>>, tls |-> FALSE, host |-> ReqHost] : k \in SeqResources }
    \cup
    { [method |-> m, namespace |-> "ns1", name |-> "a", body |-> <<>>,
       header |-> <<>>, tls |-> FALSE, host |-> ReqHost] : m \in {"HEAD", "POST"} }

Quiescent == \A p \in Procs : pc[p] \in {"idle", "done"}

ServeSeq(r) ==
    /\ r = Min(Procs)
    /\ ops < MaxSeqOps
    /\ Quiescent
    /\ \E q \in SeqRequests : ServeHTTP(r, q)
    /\ before' = [before EXCEPT ![r] =
                    [files |-> files, entries |-> contentStore.entries,
                     prevReq |-> req[r], prevResp |-> resp[r]]]
    /\ UNCHANGED cli

NextSeq == \E r \in Procs : ServeSeq(r) \/ Step(r)

\* Files that other clients created before the first request
InitSeq ==
    /\ externalHost \in ExternalHosts
    /\ \E f \in ExtFiles \cup {NoFile} :
        files = [k \in Resources |->
                   IF k = <<"ns1", "a">> /\ f # NoFile
                   THEN [extFile(k, f) EXCEPT !.resourceVersion = 1] ELSE NoFile]
    /\ revision = 1
    /\ contentStore = [entries |-> [n \in {} |-> NoEntry], writer |-> 0, readers |-> {}]
    /\ req = [r \in Procs |-> NoReq]
    /\ pc = [r \in Procs |-> "idle"]
    /\ contentType = [r \in Procs |-> <<>>]
    /\ obj = [r \in Procs |-> NoFile]
    /\ entry = [r \in Procs |-> NoEntry]
    /\ resp = [r \in Procs |-> NoResp]
    /\ calls = [r \in Procs |-> <<>>]
    /\ before = [r \in Procs |-> NoSnapshot]
    /\ written = {}
    /\ ops = 0
    /\ cli = [r \in Procs |-> NoUpload]
    /\ extOps = 0
    /\ target = NoInitializer
    /\ plugins = [p \in AdmissionPlugins |-> NoFactory]
    /\ initialized = NoInitialize

SpecSeq == InitSeq /\ [][NextSeq]_vars

(***************************************************************************)
(* SpecClients: the clients of the server.  kubectl cdn upload sends a PUT *)
(* to the content endpoint; readers send GET and HEAD; other clients       *)
(* create, update and delete Files through the object store, at any time,  *)
(* also while a request is being served.                                   *)
(***************************************************************************)
\* mime.TypeByExtension, on the extensions of the model
TypeByExtension(ext) == IF ext = ".png" THEN H_image_png ELSE <<>>

\* UploadOptions of kubectl cdn upload; FilePath is the file's extension and
\* FileData what os.ReadFile returns for it
Uploads ==
    { [FilePath |-> ".png", FileData |-> <<2, 3>>, ResourceName |-> "a",
       Namespace |-> "ns1", ContentType |-> <<>>, Create |-> c] : c \in BOOLEAN }
    \cup
    { [FilePath |-> "", FileData |-> <<1>>, ResourceName |-> "a",
       Namespace |-> "ns1", ContentType |-> <<>>, Create |-> TRUE],
      [FilePath |-> "", FileData |-> <<1>>, ResourceName |-> "b",
       Namespace |-> "ns1", ContentType |-> H_text_plain, Create |-> TRUE] }

\* UploadOptions.Run: the content type of the upload
uploadContentType(o) ==
    IF o.ContentType # <<>> THEN o.ContentType
    ELSE IF TypeByExtension(o.FilePath) # <<>> THEN TypeByExtension(o.FilePath)
    ELSE DefaultContentType

\* UploadOptions.Run: the PUT it sends to the content subresource
uploadRequest(o) ==
    [method |-> "PUT", namespace |-> o.Namespace, name |-> o.ResourceName,
     body |-> o.FileData, header |-> uploadContentType(o), tls |-> TRUE,
     host |-> ReqHost]

\* UploadOptions.Run, up to the request reaching handler r
Run(r, o) ==
    /\ ServeHTTP(r, uploadRequest(o))
    /\ cli' = [cli EXCEPT ![r] = o]

ReadRequests ==
    { [method |-> m, namespace |-> ns, name |-> "a", body |-> <<>>,
       header |-> <<>>, tls |-> FALSE, host |-> ReqHost] :
         m \in {"GET", "HEAD"}, ns \in Namespaces }

\* a GET or HEAD of a reader reaches handler r
Read(r, q) ==
    /\ ServeHTTP(r, q)
    /\ cli' = [cli EXCEPT ![r] = NoUpload]

ClientResources == {<<"ns1", "a">>, <<"ns2", "a">>}

\* another client creates a File
ExtCreate(k, f) ==
    /\ extOps < MaxExtOps
    /\ files[k] = NoFile
    /\ files' = [files EXCEPT ![k] = persisted(extFile(k, f), "ext")]
    /\ revision' = revision + 1
    /\ extOps' = extOps + 1
    /\ UNCHANGED <<admission, externalHost, contentStore, req, pc, contentType, obj, entry,
                   resp, calls, before, written, ops, cli>>

\* another client replaces the spec and status of a File
ExtUpdate(k, f) ==
    /\ extOps < MaxExtOps
    /\ files[k] # NoFile
    /\ files' = [files EXCEPT ![k] =
                   persisted([extFile(k, f) EXCEPT !.labels = files[k].labels], "ext")]
    /\ revision' = revision + 1
    /\ extOps' = extOps + 1
    /\ UNCHANGED <<admission, externalHost, contentStore, req, pc, contentType, obj, entry,
                   resp, calls, before, written, ops, cli>>

\* a delete that takes the content of the name with it
ExtDelete_cascade(k) ==
    /\ extOps < MaxExtOps
    /\ files[k] # NoFile
    /\ files' = [files EXCEPT ![k] = NoFile]
    /\ contentStore' =
          [contentStore EXCEPT
             !.entries = [m \in DOMAIN contentStore.entries \ {k[2]} |->
                            contentStore.entries[m]]]
    /\ revision' = revision + 1
    /\ extOps' = extOps + 1
    /\ UNCHANGED <<admission, externalHost, req, pc, contentType, obj, entry,
                   resp, calls, before, written, ops, cli>>

\* another client deletes a File; contentStore is not told
ExtDelete(k) ==
    /\ extOps < MaxExtOps
    /\ files[k] # NoFile
    /\ files' = [files EXCEPT ![k] = NoFile]
    /\ revision' = revision + 1
    /\ extOps' = extOps + 1
    /\ UNCHANGED <<admission, externalHost, contentStore, req, pc, contentType, obj, entry,
                   resp, calls, before, written, ops, cli>>

ServeClients(r) ==
    /\ r = Min(Procs)
    /\ ops < MaxCliOps
    /\ Quiescent
    /\ \/ \E o \in Uploads : Run(r, o)
       \/ \E q \in ReadRequests : Read(r, q)
    /\ UNCHANGED before

\* the Files other clients write in SpecClients
ClientFiles == {ExtFileBare}

Ext ==
    \E k \in ClientResources :
        \/ \E f \in ClientFiles : ExtCreate(k, f) \/ ExtUpdate(k, f)
        \/ ExtDelete(k)

NextClients == (\E r \in Procs : ServeClients(r) \/ Step(r)) \/ Ext

\* the server runs without --external-host
InitClients == Init /\ externalHost = ""

SpecClients == InitClients /\ [][NextClients]_vars

(***************************************************************************)
(* SpecAdmission: the server builds plugin initializers and initializes    *)
(* its admission plugins with them.                                        *)
(***************************************************************************)
\* a setter that leaves the plugin's field as it is
SetInternalInformerFactory_dropped(held, sf) == held

\* wantInternalInformerFactory.SetInternalInformerFactory: f.sf = sf; the
\* value of the field afterwards
SetInternalInformerFactory(held, sf) == sf

\* initializer.New(sf): a pluginInitializer that holds sf
New(sf) ==
    /\ target' = [informers |-> sf]
    /\ UNCHANGED <<content, plugins, initialized>>

\* pluginInitializer.Initialize(plugin): a plugin that implements
\* WantsInternalInformerFactory is handed the initializer's factory
Initialize(p) ==
    /\ target # NoInitializer
    /\ plugins' = [plugins EXCEPT ![p] =
                     IF p \in WantsFactory
                     THEN SetInternalInformerFactory(@, target.informers)
                     ELSE @]
    /\ initialized' = [plugin |-> p, informers |-> target.informers]
    /\ UNCHANGED <<content, target>>

NextAdmission ==
    \/ \E sf \in Factories : New(sf)
    \/ \E p \in AdmissionPlugins : Initialize(p)

SpecAdmission == Init /\ [][NextAdmission]_vars

(***************************************************************************)
(* The claims.                                                             *)
(***************************************************************************)
Done(r, method) == pc[r] = "done" /\ req[r].method = method

\* handler r serves a GET that arrived right after a PUT to the same File
\* was answered 201, and its own lookup did not meet a backend failure
GetAfterPut(r) ==
    /\ Done(r, "GET")
    /\ before[r] # NoSnapshot
    /\ before[r].prevReq.method = "PUT"
    /\ before[r].prevResp.code = 201
    /\ before[r].prevReq.namespace = req[r].namespace
    /\ before[r].prevReq.name = req[r].name
    /\ resp[r].err # InternalError

\* C1: round trip. A GET that follows a PUT answered 201 on the same name,
\* with nothing in between, answers 200 with exactly the PUT's bytes,
\* Content-Length their count and Content-Type the normalized content type
\* that PUT computed (the one its status reports).
C1_RoundTrip ==
    \A r \in Procs :
        GetAfterPut(r) =>
            /\ resp[r].code = 200
            /\ resp[r].body = before[r].prevReq.body
            /\ resp[r].contentLength = Len(before[r].prevReq.body)
            /\ resp[r].contentType = before[r].prevResp.status.contentType

C1_Witness ==
    \E r \in Procs :
        /\ GetAfterPut(r)
        /\ resp[r].code = 200
        /\ resp[r].body = <<2, 3>>
        /\ resp[r].contentType = H_text_plain_utf8

\* C2: payload atomicity. Whatever the interleaving of PUTs and GETs, a GET
\* answered 200 carries, in full, the payload one PUT stored under that
\* name, and every entry of contentStore is such a payload; so after two
\* PUTs of different payloads a GET returns one of the two.
C2_PayloadAtomicity ==
    /\ \A r \in Procs :
        Done(r, "GET") /\ resp[r].code = 200 =>
            /\ <<req[r].name, resp[r].body>> \in written
            /\ resp[r].contentLength = Len(resp[r].body)
    /\ \A n \in DOMAIN contentStore.entries :
        <<n, contentStore.entries[n].data>> \in written

\* a GET answered 200 after two PUTs stored different payloads under its
\* name, one of them served by the other handler
C2_Witness ==
    \E r \in Procs, p \in Procs :
        /\ Done(r, "GET") /\ resp[r].code = 200
        /\ p # r /\ Done(p, "PUT") /\ resp[p].code = 201
        /\ Cardinality({w \in written : w[1] = req[r].name}) = 2

\* C3: a File that a PUT has marked status.uploaded = true has a
\* contentStore entry under its name, in every state, also while the PUT is
\* in flight (the bytes are stored before the metadata is upserted).
C3_UploadedHasContent ==
    \A k \in Resources :
        files[k] # NoFile /\ files[k].by = "put" /\ files[k].uploaded =>
            k[2] \in DOMAIN contentStore.entries

\* a PUT has created the File, uploaded = true, and has not yet reached
\* contentStore: a GET of the name now answers NotFound
C3_Window ==
    \E r \in Procs :
        /\ pc[r] = "put_lock"
        /\ files[key(r)] # NoFile /\ files[key(r)].uploaded
        /\ req[r].name \notin DOMAIN contentStore.entries

\* C4: a PUT that ends with any response other than 201 leaves the keys of
\* contentStore, and the payload and status under every key, as they were
\* when it arrived.
C4_FailedPutKeepsStore ==
    \A r \in Procs :
        Done(r, "PUT") /\ resp[r].code # 201 =>
            contentStore.entries = before[r].entries

\* a PUT whose Update was refused, on a name that has content
C4_Witness ==
    \E r \in Procs :
        /\ Done(r, "PUT")
        /\ resp[r].code = 500
        /\ resp[r].msg = "failed to update file resource"
        /\ req[r].name \in DOMAIN contentStore.entries

\* the headers of the model that mime.ParseMediaType refuses, and those it
\* parses to a media type outside the allow-list
UnparseableHeaders ==
    {H_text_slash, H_param_no_value, H_no_type, H_duplicate_charset}

DisallowedHeaders == {H_bogus_no_slash, H_wibble_plain}

\* C5: a PUT whose Content-Type fails to parse or is not allowed makes no
\* object-store call and no contentStore write, leaves the Files and
\* contentStore as they were, and answers 400 (unless the body could not be
\* read, which is answered first).
C5_ClientErrorNoMutation ==
    \A r \in Procs :
        Done(r, "PUT") /\ req[r].header \in UnparseableHeaders \cup DisallowedHeaders =>
            /\ calls[r] = <<>>
            /\ files = before[r].files
            /\ contentStore.entries = before[r].entries
            /\ resp[r].code = 400 \/ resp[r].msg = "failed to read request body"

\* a refused PUT to a name that has a File and content
C5_Witness ==
    \E r \in Procs :
        /\ Done(r, "PUT")
        /\ req[r].header = H_wibble_plain
        /\ resp[r].code = 400
        /\ files[key(r)] # NoFile
        /\ req[r].name \in DOMAIN contentStore.entries

\* C6 as stated: a PUT with Content-Type bogus-no-slash is refused with the
\* parse failure ("invalid Content-Type").
C6_BogusIsParseFailure ==
    \A r \in Procs :
        Done(r, "PUT") /\ req[r].header = H_bogus_no_slash /\ resp[r].code = 400 =>
            resp[r].msg = "invalid Content-Type"

\* C6, amended: a PUT with Content-Type bogus-no-slash whose body was read
\* is refused with 400 and the type-not-allowed message ("unsupported
\* Content-Type"): the header parses, to a media type without a slash.
C6_BogusIsUnsupported ==
    \A r \in Procs :
        /\ Done(r, "PUT")
        /\ req[r].header = H_bogus_no_slash
        /\ resp[r].msg # "failed to read request body"
        => resp[r].code = 400 /\ resp[r].msg = "unsupported Content-Type"

C6_Witness ==
    \E r \in Procs :
        /\ Done(r, "PUT")
        /\ req[r].header = H_bogus_no_slash
        /\ resp[r].code = 400
        /\ resp[r].msg = "unsupported Content-Type"

\* the categories the specification lists
ListedCategories ==
    { <<"a", "p", "p", "l", "i", "c", "a", "t", "i", "o", "n">>,
      <<"a", "u", "d", "i", "o">>,
      <<"f", "o", "n", "t">>,
      <<"i", "m", "a", "g", "e">>,
      <<"m", "e", "s", "s", "a", "g", "e">>,
      <<"m", "o", "d", "e", "l">>,
      <<"m", "u", "l", "t", "i", "p", "a", "r", "t">>,
      <<"t", "e", "x", "t">>,
      <<"v", "i", "d", "e", "o">> }

\* mt has the form top/sub, top a listed category and sub not empty
ListedForm(mt) ==
    \E i \in 1..Len(mt) :
        /\ mt[i] = "/"
        /\ SubSeq(mt, 1, i - 1) \in ListedCategories
        /\ i < Len(mt)

\* media types as isValidMIMEType may be handed them, well formed or not
MediaTypeSamples ==
    {H_text_plain, H_image_png, H_application_x_custom, H_wibble_plain,
     H_bogus_no_slash, H_text_slash, H_no_type, H_absent}

\* handler r serves a PUT whose body was read and whose header parsed
ParsedPut(r) ==
    /\ req[r].method = "PUT"
    /\ pc[r] # "put_parse"
    /\ resp[r].msg # "failed to read request body"
    /\ req[r].header \notin UnparseableHeaders

\* C7: the allow-list. A PUT whose header parsed is accepted (not answered
\* 400) exactly if the media type is top/sub with top a listed category and
\* sub not empty; application/x-custom is accepted, wibble/plain is
\* refused with 400.
C7_AllowList ==
    \A r \in Procs :
        ParsedPut(r) =>
            /\ resp[r].code # 400 <=>
                 ListedForm(ParseMediaType(declaredContentType(req[r].header)).mediatype)
            /\ req[r].header = H_application_x_custom => resp[r].code # 400
            /\ req[r].header = H_wibble_plain => resp[r].code = 400
            /\ \A mt \in MediaTypeSamples : isValidMIMEType(mt) <=> ListedForm(mt)

\* application/x-custom went through, and wibble/plain was refused
C7_Witness ==
    \E r \in Procs :
        /\ ParsedPut(r)
        /\ req[r].header = H_application_x_custom
        /\ resp[r].code = 201
        /\ before[r].prevReq.header = H_wibble_plain
        /\ before[r].prevResp.code = 400

\* C8: a PUT whose media type has an allowed category and an empty subtype
\* (text/) is refused with 400 and the type-not-allowed message
\* ("unsupported Content-Type"), not the parse-failure one.
C8_EmptySubtypeIsUnsupported ==
    \A r \in Procs :
        Done(r, "PUT") /\ req[r].header = H_text_slash /\ resp[r].code = 400 =>
            resp[r].msg = "unsupported Content-Type"

\* text/ is refused by the parser, before the allow-list is consulted
C8_RefusedByParser ==
    \E r \in Procs :
        /\ Done(r, "PUT")
        /\ req[r].header = H_text_slash
        /\ resp[r].code = 400
        /\ resp[r].msg = "invalid Content-Type"

\* the content type the specification gives for each accepted header of
\* the model, written out
Txt_text_plain_UTF8 ==
    <<"t", "e", "x", "t", "/", "p", "l", "a", "i", "n", ";", " ", "c", "h", "a", "r", "s", "e", "t", "=", "U", "T", "F", "-", "8">>

AcceptedHeaders ==
    {H_absent, H_text_plain, H_text_plain_utf8, H_application_x_custom,
     H_text_plain_flowed, H_flowed_utf8, H_upper, H_image_png,
     H_trailing_semicolon}

Normalized(h) ==
    CASE h = H_absent               -> DefaultContentType
      [] h = H_text_plain           -> H_text_plain
      [] h = H_text_plain_utf8      -> H_text_plain_utf8
      [] h = H_application_x_custom -> H_application_x_custom
      [] h = H_text_plain_flowed    -> H_text_plain
      [] h = H_flowed_utf8          -> H_text_plain_utf8
      [] h = H_upper                -> Txt_text_plain_UTF8
      [] h = H_image_png            -> H_image_png
      [] h = H_trailing_semicolon   -> H_text_plain

\* handler r serves a PUT whose Create or Update has succeeded
Upserted(r) ==
    /\ req[r].method = "PUT"
    /\ \/ pc[r] \in {"put_lock", "put_store", "put_respond"}
       \/ pc[r] = "done" /\ resp[r].code = 201

\* C9: normalization. For every accepted header the content type a PUT
\* stores (in spec.contentType, and in the status it keeps and returns) is
\* type/subtype; charset=value when the header carried a charset and the
\* bare type/subtype otherwise; other parameters are dropped and an absent
\* header counts as application/octet-stream.
C9_Normalization ==
    \A r \in Procs :
        /\ Upserted(r) =>
            /\ req[r].header \in AcceptedHeaders
            /\ files[key(r)].contentType = Normalized(req[r].header)
        /\ Done(r, "PUT") /\ resp[r].code = 201 =>
            /\ resp[r].status.contentType = Normalized(req[r].header)
            /\ contentStore.entries[req[r].name].status.contentType =
                 Normalized(req[r].header)

\* a header with a charset and another parameter was stored with the
\* charset alone
C9_Witness ==
    \E r \in Procs :
        /\ Done(r, "PUT") /\ resp[r].code = 201
        /\ req[r].header = H_flowed_utf8
        /\ files[key(r)].contentType = H_text_plain_utf8

\* C10: the content URL. The URL a PUT writes to spec.url has scheme https
\* exactly if the request came over TLS (else http), the configured
\* external host if there is one and the request's Host otherwise, and the
\* path /apis/{group}/{version}/namespaces/{namespace}/files/{name}/content
\* of the request's namespace and the handler's name.
C10_ContentURL ==
    \A r \in Procs :
        Upserted(r) =>
            LET url == files[key(r)].url
            IN  /\ Len(url) = 12
                /\ url[1] = "https" <=> req[r].tls
                /\ url[1] = "http" <=> ~req[r].tls
                /\ url[2] = "://"
                /\ externalHost # "" => url[3] = externalHost
                /\ externalHost = "" => url[3] = req[r].host
                /\ SubSeq(url, 4, 12) =
                     <<"/apis/", "cdn.k8s.toms.place", "/", "v1alpha1",
                       "/namespaces/", req[r].namespace, "/files/",
                       req[r].name, "/content">>

\* an https URL on the external host, for a File of the second namespace
C10_Witness ==
    \E r \in Procs :
        /\ Done(r, "PUT") /\ resp[r].code = 201
        /\ req[r].tls /\ req[r].namespace = "ns2"
        /\ externalHost = "cdn.example.com"
        /\ files[key(r)].url[1] = "https"
        /\ files[key(r)].url[3] = "cdn.example.com"

\* the canonical content URL of a request, written out
CanonicalURL(q) ==
    <<IF q.tls THEN "https" ELSE "http", "://",
      IF externalHost = "" THEN q.host ELSE externalHost,
      "/apis/", "cdn.k8s.toms.place", "/", "v1alpha1", "/namespaces/",
      q.namespace, "/files/", q.name, "/content">>

\* the positions in the calls of handler r of the calls named op
CallsOf(r, op) == {i \in 1..Len(calls[r]) : calls[r][i].op = op}

\* handler r serves a PUT and is past the Create or Update its lookup led to
PastUpsert(r) ==
    /\ req[r].method = "PUT"
    /\ pc[r] \in {"put_lock", "put_store", "put_respond", "done"}
    /\ Len(calls[r]) >= 2

\* C11: upsert, create branch. A valid PUT whose lookup returned not-found
\* issues exactly one Create and no Update; the File it hands to Create has
\* the request's name, spec.url the canonical content URL, spec.size the
\* byte count of the body, spec.contentType the normalized content type,
\* status.uploaded true and status.error empty, and that is the File stored
\* when Create succeeds.
C11_CreateBranch ==
    \A r \in Procs :
        PastUpsert(r) /\ IsNotFound(calls[r][1].err) =>
            /\ CallsOf(r, "Create") = {2}
            /\ CallsOf(r, "Update") = {}
            /\ LET f == calls[r][2].file
               IN  /\ f.name = req[r].name
                   /\ f.url = CanonicalURL(req[r])
                   /\ f.size = Len(req[r].body)
                   /\ f.contentType = Normalized(req[r].header)
                   /\ f.uploaded = TRUE
                   /\ f.error = ""
                   /\ calls[r][2].err = NoErr =>
                        files[key(r)] = [f EXCEPT !.resourceVersion = revision]

\* a PUT of two bytes created the File
C11_Witness ==
    \E r \in Procs :
        /\ Done(r, "PUT") /\ resp[r].code = 201
        /\ calls[r][2].op = "Create" /\ calls[r][2].err = NoErr
        /\ files[key(r)].size = 2
        /\ files[key(r)].uploaded

\* C12: upsert, update branch. A valid PUT whose lookup found the File
\* issues one Update of that File and no Create; in the File submitted
\* spec.url, spec.size and spec.contentType are the new values,
\* status.uploaded is true and status.error empty, and the name, the
\* resourceVersion, spec.resourceLocation and the labels are as read.
C12_UpdateBranch ==
    \A r \in Procs :
        PastUpsert(r) /\ calls[r][1].err = NoErr =>
            /\ CallsOf(r, "Update") = {2}
            /\ CallsOf(r, "Create") = {}
            /\ LET old == calls[r][1].file
                   f == calls[r][2].file
               IN  /\ f.name = req[r].name /\ f.name = old.name
                   /\ f.url = CanonicalURL(req[r])
                   /\ f.size = Len(req[r].body)
                   /\ f.contentType = Normalized(req[r].header)
                   /\ f.uploaded = TRUE
                   /\ f.error = ""
                   /\ f.resourceLocation = old.resourceLocation
                   /\ f.labels = old.labels
                   /\ f.resourceVersion = old.resourceVersion
                   /\ calls[r][2].err = NoErr =>
                        files[key(r)] = [f EXCEPT !.resourceVersion = revision,
                                                  !.by = "put"]

\* a PUT updated a File that another client had created with a resource
\* location and labels
C12_Witness ==
    \E r \in Procs :
        /\ Done(r, "PUT") /\ resp[r].code = 201
        /\ calls[r][2].op = "Update" /\ calls[r][2].err = NoErr
        /\ calls[r][1].file.by = "ext"
        /\ files[key(r)].resourceLocation = "s3://bucket/x"
        /\ files[key(r)].labels = "team=web"
        /\ files[key(r)].uploaded

\* application/octet-stream, written out
Txt_octet_stream ==
    <<"a", "p", "p", "l", "i", "c", "a", "t", "i", "o", "n", "/", "o",
    "c", "t", "e", "t", "-", "s", "t", "r", "e", "a", "m">>

\* handler r has answered a GET or HEAD whose lookup found the File, for a
\* name that has a contentStore entry
ReadOfContent(r) ==
    /\ pc[r] = "done"
    /\ req[r].method \in {"GET", "HEAD"}
    /\ Len(calls[r]) >= 2
    /\ calls[r][1].op = "Get" /\ calls[r][1].err = NoErr
    /\ req[r].name \in DOMAIN contentStore.entries

\* C13: HEAD versus GET. For a name with a File and a contentStore entry,
\* HEAD and GET answer 200 with the same headers: Content-Type the File's
\* spec.contentType, or application/octet-stream when that is empty;
\* Content-Length the byte count of the stored payload, whatever spec.size
\* says; Content-Disposition naming the resource.  GET's body is the stored
\* payload and HEAD's is empty.
C13_HeadVersusGet ==
    \A r \in Procs :
        ReadOfContent(r) =>
            LET file == calls[r][1].file
                data == contentStore.entries[req[r].name].data
            IN  /\ resp[r].code = 200
                /\ resp[r].contentType =
                     IF file.contentType = <<>> THEN Txt_octet_stream
                     ELSE file.contentType
                /\ resp[r].contentLength = Len(data)
                /\ resp[r].filename = req[r].name
                /\ req[r].method = "GET" => resp[r].body = data
                /\ req[r].method = "HEAD" => resp[r].body = <<>>

\* a HEAD of a File without content type and of size 0, for a name that
\* holds two bytes
C13_Witness ==
    \E r \in Procs :
        /\ ReadOfContent(r)
        /\ req[r].method = "HEAD"
        /\ calls[r][1].file.contentType = <<>>
        /\ calls[r][1].file.size = 0
        /\ resp[r].contentType = Txt_octet_stream
        /\ resp[r].contentLength = 2
        /\ resp[r].body = <<>>

\* handler r has answered a GET or HEAD
ReadDone(r) == pc[r] = "done" /\ req[r].method \in {"GET", "HEAD"}

\* C14: two kinds of 404 on GET and HEAD. The File is looked up first: a
\* name without a File gets the object store's not-found, and contentStore
\* is not consulted, even when it holds bytes for the name; a File without
\* a contentStore entry gets the handler's not-found for kind file and the
\* name.  Both are 404 and they differ.
C14_TwoNotFounds ==
    \A r \in Procs :
        ReadDone(r) =>
            /\ calls[r][1].op = "Get"
            /\ IsNotFound(calls[r][1].err) =>
                 /\ Len(calls[r]) = 1
                 /\ resp[r].code = 404
                 /\ resp[r].err = calls[r][1].err
                 /\ resp[r].err =
                      [code |-> 404, reason |-> "NotFound", kind |-> "files",
                       name |-> req[r].name]
            /\ calls[r][1].err = NoErr /\ entry[r] = NoEntry =>
                 /\ CallsOf(r, "Load") = {2}
                 /\ resp[r].code = 404
                 /\ resp[r].err =
                      [code |-> 404, reason |-> "NotFound", kind |-> "file",
                       name |-> req[r].name]

\* a GET of a name without a File, while contentStore holds bytes for it
C14_Witness ==
    \E r \in Procs :
        /\ ReadDone(r)
        /\ files[key(r)] = NoFile
        /\ req[r].name \in DOMAIN contentStore.entries
        /\ resp[r].code = 404
        /\ resp[r].err.kind = "files"

\* a GET of a File that has no content
C14_NoContent ==
    \E r \in Procs :
        /\ ReadDone(r)
        /\ files[key(r)] # NoFile
        /\ req[r].name \notin DOMAIN contentStore.entries
        /\ resp[r].code = 404
        /\ resp[r].err.kind = "file"

\* C15: method dispatch. A request whose method is not GET, HEAD or PUT is
\* answered 405 at once, with no object-store call and no contentStore
\* access, and changes nothing; GET and HEAD run the read path (which never
\* creates, updates or stores), GET with a body and HEAD without; PUT runs
\* the write path (which never loads from contentStore).
C15_MethodDispatch ==
    \A r \in Procs :
        /\ req[r].method \notin {"", "GET", "HEAD", "PUT"} =>
             /\ pc[r] = "done"
             /\ resp[r].code = 405
             /\ calls[r] = <<>>
             /\ files = before[r].files
             /\ contentStore.entries = before[r].entries
        /\ req[r].method \in {"GET", "HEAD"} =>
             /\ pc[r] \in {"get_lookup", "get_rlock", "get_read", "get_respond", "done"}
             /\ \A i \in 1..Len(calls[r]) : calls[r][i].op \in {"Get", "Load"}
             /\ resp[r].code # 405
             /\ pc[r] = "done" /\ resp[r].code = 200 =>
                  resp[r].body = IF req[r].method = "GET"
                                 THEN contentStore.entries[req[r].name].data
                                 ELSE <<>>
        /\ req[r].method = "PUT" =>
             /\ pc[r] \in {"put_parse", "put_lookup", "put_create", "put_update",
                           "put_lock", "put_store", "put_respond", "done"}
             /\ \A i \in 1..Len(calls[r]) :
                  calls[r][i].op \in {"Get", "Create", "Update", "Store"}
             /\ resp[r].code # 405

\* a POST to a name that has a File and content
C15_Witness ==
    \E r \in Procs :
        /\ Done(r, "POST")
        /\ resp[r].code = 405
        /\ files[key(r)] # NoFile
        /\ req[r].name \in DOMAIN contentStore.entries

\* C16: abort before mutation. A PUT whose body read fails, or whose lookup
\* fails with an error other than not-found, ends with an error response,
\* without Create, Update or contentStore write, and changes nothing; the
\* lookup's error is handed to the caller as it is.
C16_AbortBeforeMutation ==
    \A r \in Procs :
        Done(r, "PUT") =>
            /\ resp[r].msg = "failed to read request body" =>
                 /\ resp[r].code = 500
                 /\ calls[r] = <<>>
                 /\ files = before[r].files
                 /\ contentStore.entries = before[r].entries
            /\ /\ Len(calls[r]) >= 1
               /\ calls[r][1].err # NoErr
               /\ ~IsNotFound(calls[r][1].err)
               => /\ Len(calls[r]) = 1
                  /\ resp[r].err = calls[r][1].err
                  /\ resp[r].code = calls[r][1].err.code
                  /\ resp[r].code >= 400
                  /\ files = before[r].files
                  /\ contentStore.entries = before[r].entries

\* a PUT to a File with content, whose lookup failed in the backend
C16_Witness ==
    \E r \in Procs :
        /\ Done(r, "PUT")
        /\ calls[r] = <<call("Get", NoFile, InternalError)>>
        /\ resp[r].err = InternalError
        /\ files[key(r)] # NoFile
        /\ req[r].name \in DOMAIN contentStore.entries

\* a PUT to a File with content, whose body could not be read
C16_BodyReadFailed ==
    \E r \in Procs :
        /\ Done(r, "PUT")
        /\ resp[r].msg = "failed to read request body"
        /\ files[key(r)] # NoFile
        /\ req[r].name \in DOMAIN contentStore.entries

\* C17: no retries. A PUT looks the File up once and makes at most one
\* Create or Update; when the object store refuses that call (already
\* exists and version conflict included) the PUT answers 500 at once: it
\* makes no further call and does not write contentStore.
C17_NoRetries ==
    \A r \in Procs :
        req[r].method = "PUT" =>
            /\ Cardinality(CallsOf(r, "Get")) <= 1
            /\ Cardinality(CallsOf(r, "Create") \cup CallsOf(r, "Update")) <= 1
            /\ Cardinality(CallsOf(r, "Store")) <= 1
            /\ \A i \in CallsOf(r, "Create") \cup CallsOf(r, "Update") :
                 calls[r][i].err # NoErr =>
                     /\ i = Len(calls[r])
                     /\ pc[r] = "done"
                     /\ resp[r].code = 500
            /\ CallsOf(r, "Store") # {} =>
                 \E i \in CallsOf(r, "Create") \cup CallsOf(r, "Update") :
                     calls[r][i].err = NoErr

\* a PUT whose Update met a version conflict with a concurrent PUT
C17_Witness ==
    \E r \in Procs :
        /\ Done(r, "PUT")
        /\ Len(calls[r]) = 2
        /\ calls[r][2].op = "Update"
        /\ calls[r][2].err.reason = "Conflict"
        /\ resp[r].code = 500

\* a PUT whose Create lost against a concurrent PUT's
C17_AlreadyExists ==
    \E r \in Procs :
        /\ Done(r, "PUT")
        /\ Len(calls[r]) = 2
        /\ calls[r][2].op = "Create"
        /\ calls[r][2].err.reason = "AlreadyExists"
        /\ resp[r].code = 500

\* C18: content is never removed. Whatever GET, HEAD, PUT and other
\* clients' creates, updates and deletes of Files do, a name that is a key
\* of contentStore stays one; its entry changes only when a PUT to the name
\* stores its whole payload in its place.
C18_ContentNeverRemoved ==
    [][\A n \in DOMAIN contentStore.entries :
          /\ n \in DOMAIN contentStore.entries'
          /\ \/ contentStore.entries'[n] = contentStore.entries[n]
             \/ \E r \in Procs :
                  /\ pc[r] = "put_store" /\ req[r].name = n
                  /\ contentStore.entries'[n].data = req[r].body]_vars

\* the File of an uploaded name was deleted, and a second name uploaded
\* since; the first name still has its content
C18_Witness ==
    /\ files[<<"ns1", "a">>] = NoFile
    /\ DOMAIN contentStore.entries = {"a", "b"}

\* no PUT to name n is in flight
AtRest(n) ==
    \A r \in Procs :
        req[r].method = "PUT" /\ req[r].name = n => pc[r] \in {"idle", "done"}

\* C19: projection consistency at rest. When PUTs to a name do not overlap
\* and a File is written by PUTs only, then whenever no PUT to the name is
\* in flight and the name has a File and a contentStore entry, spec.size is
\* the length of the stored payload, spec.contentType the normalized
\* content type of the PUT that stored it, and status.uploaded is true.
C19_ProjectionAtRest ==
    \A k \in Resources :
        /\ AtRest(k[2])
        /\ files[k] # NoFile
        /\ files[k].by = "put" /\ files[k].labels = "" /\ files[k].resourceLocation = ""
        /\ k[2] \in DOMAIN contentStore.entries
        => /\ files[k].size = Len(contentStore.entries[k[2]].data)
           /\ files[k].contentType = contentStore.entries[k[2]].status.contentType
           /\ files[k].uploaded

\* two Files of one name in two namespaces, both written by PUTs, of
\* different sizes: the one entry of the name fits only one of them
C19_TwoNamespaces ==
    /\ AtRest("a")
    /\ files[<<"ns1", "a">>] # NoFile /\ files[<<"ns1", "a">>].by = "put"
    /\ files[<<"ns2", "a">>] # NoFile /\ files[<<"ns2", "a">>].by = "put"
    /\ files[<<"ns1", "a">>].size # files[<<"ns2", "a">>].size
    /\ "a" \in DOMAIN contentStore.entries

\* C20: kubectl-cdn upload creates the File only when its --create option
\* is true: an upload run with --create=false never has the server create
\* a File that did not exist.
C20_CreateOnlyIfAsked ==
    \A r \in Procs :
        cli[r] # NoUpload /\ ~cli[r].Create
        => \A i \in CallsOf(r, "Create") : calls[r][i].err # NoErr

\* an upload run with --create=false is answered 201 Created and the File
\* of its name, absent before, is in the store
C20_CreatedAnyway ==
    \E r \in Procs :
        /\ cli[r] # NoUpload /\ ~cli[r].Create
        /\ pc[r] = "done" /\ resp[r].code = 201
        /\ \E i \in CallsOf(r, "Get") : calls[r][i].err.reason = "NotFound"
        /\ files[<<cli[r].Namespace, cli[r].ResourceName>>] # NoFile
        /\ files[<<cli[r].Namespace, cli[r].ResourceName>>].by = "put"

\* the calls of handler r's request before its i-th include a Create or an
\* Update that returned no error
UpsertedBefore(r, i) ==
    \E j \in 1..(i - 1) :
        /\ calls[r][j].op \in {"Create", "Update"}
        /\ calls[r][j].err = NoErr

\* C22: ordering within one PUT. A PUT writes contentStore only after its
\* Create or Update has returned without error, and answers 201 only after
\* it has written contentStore; a handler waiting for or holding the write
\* lock has a successful upsert behind it.
C22_OrderWithinPut ==
    \A r \in Procs :
        /\ \A i \in CallsOf(r, "Store") : UpsertedBefore(r, i)
        /\ pc[r] \in {"put_lock", "put_store"} => UpsertedBefore(r, Len(calls[r]) + 1)
        /\ req[r].method = "PUT" /\ resp[r].code = 201
           => CallsOf(r, "Store") = {Len(calls[r])}

\* a PUT answered 201 next to a PUT of the other handler whose upsert was
\* refused and which wrote nothing
C22_Witness ==
    \E r, p \in Procs :
        /\ Done(r, "PUT") /\ resp[r].code = 201
        /\ calls[r][Len(calls[r])].op = "Store"
        /\ Done(p, "PUT") /\ resp[p].code = 500
        /\ CallsOf(p, "Update") # {} /\ CallsOf(p, "Store") = {}

\* what a PUT request q makes of the File and of the contentStore entry:
\* size, normalized content type and payload
PutOutcome(q) ==
    [size |-> Len(q.body), contentType |-> Normalized(q.header), data |-> q.body]

\* handlers r and p have both completed a PUT to one File with 201, with
\* different payloads, and nothing is in flight
BothPutsDone(r, p) ==
    /\ r # p /\ Quiescent
    /\ Done(r, "PUT") /\ resp[r].code = 201
    /\ Done(p, "PUT") /\ resp[p].code = 201
    /\ key(r) = key(p) /\ req[r].body # req[p].body

\* C23: reachable metadata/content mismatch. After two concurrent PUTs with
\* different payloads to one name have both answered 201, the File's
\* spec.size and spec.contentType are together those of one of the PUTs and
\* the contentStore entry is the payload and content type of one of the
\* PUTs, never a mixture within either; the two need not be the same PUT.
C23_EitherPutWins ==
    \A r, p \in Procs :
        BothPutsDone(r, p)
        => /\ \E w \in {r, p} :
                /\ files[key(r)].size = PutOutcome(req[w]).size
                /\ files[key(r)].contentType = PutOutcome(req[w]).contentType
           /\ \E w \in {r, p} :
                /\ contentStore.entries[req[r].name].data = PutOutcome(req[w]).data
                /\ contentStore.entries[req[r].name].status.contentType
                     = PutOutcome(req[w]).contentType

\* the mismatch: the File describes the PUT of handler p, contentStore
\* holds the payload of handler r
C23_Witness ==
    \E r, p \in Procs :
        /\ BothPutsDone(r, p)
        /\ files[key(r)].size = Len(req[p].body)
        /\ files[key(r)].contentType = Normalized(req[p].header)
        /\ contentStore.entries[req[r].name].data = req[r].body
        /\ Len(req[r].body) # Len(req[p].body)

\* the handlers inside the write and the read critical section
Writers == {r \in Procs : pc[r] = "put_store"}

Readers == {r \in Procs : pc[r] = "get_read"}

\* C24: lock discipline of contentStore. A writer holds the lock with no
\* other writer and no reader, several readers may hold it together, and
\* a handler holds the lock only at the map read (holding RLock) or the map
\* assignment (holding Lock): never while it reads the request body, calls
\* the object store or writes its response.
C24_LockDiscipline ==
    /\ Cardinality(Writers) <= 1
    /\ Writers # {} => Readers = {}
    /\ contentStore.readers = Readers
    /\ contentStore.writer # 0 => Writers = {contentStore.writer}
    /\ contentStore.writer = 0 => Writers = {}

\* two readers hold the lock together
C24_Witness ==
    /\ Cardinality(contentStore.readers) >= 2
    /\ \A r \in contentStore.readers : pc[r] = "get_read"

\* a writer holds the lock while a reader waits for it
C24_WriterAlone ==
    /\ contentStore.writer # 0
    /\ \E r \in Procs : pc[r] = "get_rlock"

\* handler r's upsert has succeeded and it has not yet taken the write lock
AwaitsCommit(r) ==
    /\ pc[r] = "put_lock"
    /\ UpsertedBefore(r, Len(calls[r]) + 1)

\* handler r has written its payload under its name and answered 201
Committed(r) ==
    /\ pc[r] = "done" /\ resp[r].code = 201 /\ req[r].method = "PUT"
    /\ CallsOf(r, "Store") # {}
    /\ <<req[r].name, req[r].body>> \in written

\* C25: the commit is unconditional and eventually happens. Under fair
\* scheduling, with GETs and PUTs contending for the lock of contentStore,
\* every PUT whose Create or Update succeeded eventually writes its payload
\* to contentStore under its name and then answers 201.
C25_CommitEventually ==
    \A r \in Procs : AwaitsCommit(r) ~> Committed(r)

\* a PUT past its upsert waits for the lock, which another handler holds
C25_Witness ==
    \E r \in Procs :
        /\ AwaitsCommit(r)
        /\ contentStore.writer # 0 \/ contentStore.readers # {}

\* C26: reads are side-effect free. A step of a handler serving GET or HEAD,
\* its dispatch included and whatever its outcome, leaves every File and
\* every contentStore entry as they were; a step of a handler that changes
\* a File is the Create or Update of a PUT, and one that changes
\* contentStore.entries is the map assignment of a PUT.
C26_ReadsSideEffectFree ==
    [][\A r \in Procs :
          pc'[r] # pc[r]
          => /\ req'[r].method \in {"GET", "HEAD"}
                => files' = files /\ contentStore.entries' = contentStore.entries
             /\ files' # files
                => req[r].method = "PUT" /\ pc[r] \in {"put_create", "put_update"}
             /\ contentStore.entries' # contentStore.entries
                => req[r].method = "PUT" /\ pc[r] = "put_store"]_vars

\* a GET or HEAD answered 200 whose entry is still the one of its name
C26_Witness ==
    \E r \in Procs :
        /\ ReadDone(r) /\ resp[r].code = 200
        /\ req[r].name \in DOMAIN contentStore.entries
        /\ contentStore.entries[req[r].name] = entry[r]
        /\ files[key(r)] = obj[r]

\* a GET answered with the handler's own not-found, the File as it was read
C26_NoContentRead ==
    \E r \in Procs :
        /\ ReadDone(r) /\ resp[r].code = 404 /\ resp[r].err.kind = "file"
        /\ files[key(r)] = obj[r]

\* the File of handler r's request was written by other clients only: no
\* PUT to its namespace and name has succeeded
NeverPut(r) == files[key(r)] # NoFile /\ files[key(r)].by = "ext"

\* C27: namespace isolation of content. A GET or HEAD on the content of a
\* File that never received a PUT, while content was uploaded by PUT to the
\* same name in another namespace only, is answered 404 and never 200 with
\* the other namespace's bytes.
C27_NamespaceIsolation ==
    \A r \in Procs :
        ReadDone(r) /\ NeverPut(r) /\ obj[r] = files[key(r)]
        => resp[r].code = 404

\* a GET of ns1/a, a File no PUT has written, answered 200 with the bytes a
\* PUT to ns2/a stored
C27_Leak ==
    \E r \in Procs :
        /\ ReadDone(r) /\ NeverPut(r) /\ key(r) = <<"ns1", "a">>
        /\ resp[r].code = 200 /\ resp[r].body = <<2, 3>>
        /\ files[<<"ns2", "a">>] # NoFile /\ files[<<"ns2", "a">>].by = "put"
        /\ written = {<<"a", <<2, 3>>>>}

\* C28: content outlives its resource. The delete of a File through the
\* object store leaves contentStore as it was, so the entry of the name is
\* still there while GET and HEAD of the name are answered with the store's
\* not-found; and a GET or HEAD of a File that other clients created and no
\* PUT has written since, for a name that holds an entry, is answered 200
\* with bytes a PUT has stored under the name, under the Content-Type of
\* the File as it is now.
C28_ContentOutlivesResource ==
    [][/\ \A k \in Resources :
            files[k] # NoFile /\ files'[k] = NoFile
            => contentStore.entries' = contentStore.entries
       /\ \A r \in Procs :
            pc[r] = "get_lookup" /\ pc'[r] # pc[r] /\ files[key(r)] = NoFile
            /\ calls'[r][1].err # InternalError
            => /\ pc'[r] = "done" /\ resp'[r].code = 404
               /\ resp'[r].err.kind = storeResource
       /\ \A r \in Procs :
            pc[r] = "get_respond" /\ pc'[r] = "done"
            /\ obj[r].by = "ext" /\ entry[r] # NoEntry
            => /\ resp'[r].code = 200
               /\ resp'[r].contentLength = Len(entry[r].data)
               /\ req[r].method = "GET" => resp'[r].body = entry[r].data
               /\ <<req[r].name, entry[r].data>> \in written
               /\ resp'[r].contentType = servedContentType(obj[r])]_vars

\* a File created by a PUT and deleted by another client: the entry of its
\* name is still in contentStore, and a GET of it is answered with the
\* store's not-found
C28_Witness ==
    \E r \in Procs :
        /\ ReadDone(r) /\ key(r) = <<"ns1", "a">>
        /\ files[<<"ns1", "a">>] = NoFile
        /\ revision = 2 /\ extOps = 1
        /\ "a" \in DOMAIN contentStore.entries
        /\ resp[r].code = 404 /\ resp[r].err.kind = storeResource

\* a File created by another client after the PUT and the delete, and a GET
\* of it answered 200 with the bytes of the PUT
C28_Recreated ==
    \E r \in Procs :
        /\ ReadDone(r) /\ key(r) = <<"ns1", "a">> /\ req[r].method = "GET"
        /\ files[<<"ns1", "a">>] # NoFile /\ files[<<"ns1", "a">>].by = "ext"
        /\ files[<<"ns1", "a">>].resourceVersion = 3 /\ extOps = 2
        /\ resp[r].code = 200 /\ resp[r].body = <<2, 3>>
        /\ resp[r].contentType = Txt_octet_stream

\* the PUT requests of Spec
ConcPuts == {q \in ConcRequests : q.method = "PUT"}

\* handler r has answered a GET or HEAD with 200
ReadOk(r) == ReadDone(r) /\ resp[r].code = 200

\* C29 as stated: header/body coherence of a GET under concurrency. With
\* the File written by PUTs only, a GET or HEAD answered 200 reports the
\* normalized content type of the very PUT whose payload is its
\* Content-Length and body, also when it runs next to a PUT to the name.
C29_HeaderBodyCoherence ==
    \A r \in Procs :
        ReadOk(r)
        => \E q \in ConcPuts :
             /\ key(r) = <<q.namespace, q.name>>
             /\ resp[r].contentType = Normalized(q.header)
             /\ resp[r].contentLength = Len(q.body)
             /\ req[r].method = "GET" => resp[r].body = q.body

\* C29 as amended: a GET or HEAD answered 200 reports the normalized content
\* type of some PUT to the File, and as Content-Length and body the whole
\* payload of some PUT to the name; the two need not be the same PUT.
C29_HeaderAndBodyEachOfAPut ==
    \A r \in Procs :
        ReadOk(r)
        => /\ \E q \in ConcPuts :
                /\ key(r) = <<q.namespace, q.name>>
                /\ resp[r].contentType = Normalized(q.header)
           /\ \E q \in ConcPuts :
                /\ req[r].name = q.name
                /\ <<q.name, q.body>> \in written
                /\ resp[r].contentLength = Len(q.body)
                /\ req[r].method = "GET" => resp[r].body = q.body

\* a GET answered 200 with the content type of one PUT and the payload of
\* the other
C29_Witness ==
    \E r \in Procs :
        /\ ReadOk(r)
        /\ resp[r].contentType = H_image_png
        /\ resp[r].body = <<1>>

\* handler r has completed a PUT whose lookup said not found and whose
\* Create reached the store
FirstUploadDone(r) ==
    /\ Done(r, "PUT")
    /\ Len(calls[r]) >= 2
    /\ IsNotFound(calls[r][1].err)
    /\ calls[r][2].op = "Create"
    /\ calls[r][2].err # InternalError

\* the only two requests served so far were PUTs to one File, which both
\* found absent, and both are complete
TwoFirstUploads(w, l) ==
    /\ w # l /\ ops = 2 /\ Quiescent
    /\ FirstUploadDone(w) /\ FirstUploadDone(l)
    /\ key(w) = key(l)

\* C30: concurrent first uploads. When two PUTs to a name without a File
\* both see not-found, the store lets one Create succeed: one PUT answers
\* 201 and the other 500; the PUT that answered 500 has not written
\* contentStore, and the File's spec.size and spec.contentType and the
\* stored payload are all those of the PUT that answered 201.
C30_ConcurrentFirstUploads ==
    \A w, l \in Procs :
        /\ TwoFirstUploads(w, l) => resp[w].code = 201 \/ resp[l].code = 201
        /\ TwoFirstUploads(w, l) /\ resp[w].code # 500
           => /\ resp[w].code = 201 /\ resp[l].code = 500
              /\ calls[l][2].err.reason = "AlreadyExists"
              /\ CallsOf(l, "Store") = {}
              /\ written = {<<req[w].name, req[w].body>>}
              /\ files[key(w)].size = Len(req[w].body)
              /\ files[key(w)].contentType = Normalized(req[w].header)
              /\ contentStore.entries[req[w].name].data = req[w].body
              /\ contentStore.entries[req[w].name].status.contentType
                   = Normalized(req[w].header)

\* the two first uploads carry different payloads; one answered 201, the
\* other 500
C30_Witness ==
    \E w, l \in Procs :
        /\ TwoFirstUploads(w, l)
        /\ resp[w].code = 201 /\ resp[l].code = 500
        /\ req[w].body # req[l].body
        /\ contentStore.entries[req[w].name].data = req[w].body

====
